---------------------------- MODULE Spec2Model ----------------------------
(***************************************************************************)
(* Model of mathics/builtin/files.py: the global stream tables             *)
(* (STREAMS, _STREAMS, NSTREAMS), the builtins that open, close and list   *)
(* streams, and Read's typed token reader.                                 *)
(*                                                                         *)
(* A text is a sequence of one-character strings.  A stream is a record    *)
(* [buf, pos, closed, mode]: the host io object's content, its position,   *)
(* its closed flag and the mode it was opened with ("s" is io.StringIO).   *)
(***************************************************************************)
EXTENDS Integers, Sequences, FiniteSets, TLC

VARIABLES
    STREAMS,    \* files.py:13, 459  id -> host stream object ("Python repr")
    _STREAMS,   \* files.py:460      id -> stream expression ("Mathics repr")
    NSTREAMS,   \* files.py:461      highest stream number handed out
    defined,    \* TRUE once the globals _STREAMS and NSTREAMS are bound (456-461)
    result,     \* the last builtin evaluated: its arguments and what it returned
    issued,     \* history: the ids returned by the successful opens, in order
    wordlog,    \* history (SpecRead): what the Read[_, Word] calls returned, while only
                \* such calls were made
    eofseen,    \* history (SpecEof): per token type, how many single-type Reads of it
                \* returned EndOfFile (counted up to MaxEof)
    procs       \* (SpecConc) the opens in progress: where each stands in _put_stream

vars == <<STREAMS, _STREAMS, NSTREAMS, defined, result, issued, wordlog, eofseen, procs>>

---------------------------------------------------------------------------
\* Bounds of the model.

MaxStreams == 3      \* opens per behaviour of the registry specification
MaxLen == 3          \* length of the text given to StringToStream in SpecRead
MaxTypes == 2        \* length of the type list of one Read request in SpecRead
MaxReads == 4        \* length of a run of single Word reads that wordlog records
MaxEof == 2          \* EndOfFile answers per token type that eofseen counts

---------------------------------------------------------------------------
\* Characters and texts.

Quote == "\""
Letters == {"a", "b"}
Alphabet == Letters \cup {" ", "\n"}

\* ord() of the characters of Alphabet (files.py:150).
ord(c) ==
    CASE c = "a" -> 97
      [] c = "b" -> 98
      [] c = " " -> 32
      [] c = "\t" -> 9
      [] c = "\n" -> 10
      [] c = Quote -> 34

\* The texts given to StringToStream: every text over Alphabet up to length n,
\* and a few with a tab or with double quotes.
ExtraTexts ==
    {<<"a", "\t", "b">>, <<"\t", "a">>, <<"a", "\t">>, <<Quote, "a", " ", "b", Quote>>}
Texts(n) == UNION {[1..k -> Alphabet] : k \in 0..n} \cup ExtraTexts

Range(s) == {s[i] : i \in 1..Len(s)}

\* str.strip('"'): drop every leading and every trailing double quote.
RECURSIVE lstrip(_)
lstrip(s) ==
    IF s # <<>> /\ Head(s) = Quote THEN lstrip(Tail(s)) ELSE s

RECURSIVE rstrip(_)
rstrip(s) ==
    IF s # <<>> /\ s[Len(s)] = Quote THEN rstrip(SubSeq(s, 1, Len(s) - 1)) ELSE s

strip(s) == rstrip(lstrip(s))

\* String.to_python() gives the text between double quotes; the builtins
\* strip them again (files.py:239, 428).
to_python(s) == <<Quote>> \o s \o <<Quote>>

---------------------------------------------------------------------------
\* The host io objects.

NewStream(buf, mode) == [buf |-> buf, pos |-> 0, closed |-> FALSE, mode |-> mode]

Readable(stream) == stream.mode \in {"r", "s"}

\* What a read on the stream raises before it touches the content.
ioError(stream) ==
    IF stream.closed THEN "ValueError"
    ELSE IF ~Readable(stream) THEN "IOError"
    ELSE ""

\* stream.read(1) at position pos: the next character, or '' at the end.
read1(stream, pos) ==
    IF ioError(stream) # ""
    THEN [exc |-> ioError(stream), s |-> <<>>, pos |-> pos]
    ELSE IF pos < Len(stream.buf)
    THEN [exc |-> "", s |-> <<stream.buf[pos + 1]>>, pos |-> pos + 1]
    ELSE [exc |-> "", s |-> <<>>, pos |-> pos]

\* Index of the last character of the line that starts after pos: the next
\* "\n" if there is one, the end of the content otherwise.
RECURSIVE lineEnd(_, _)
lineEnd(buf, j) ==
    IF j >= Len(buf) THEN Len(buf)
    ELSE IF buf[j + 1] = "\n" THEN j + 1
    ELSE lineEnd(buf, j + 1)

\* readline() followed by a strip of the terminator before the length test of
\* line 163.
readline_stripped(stream, pos) ==
    IF ioError(stream) # ""
    THEN [exc |-> ioError(stream), s |-> <<>>, pos |-> pos]
    ELSE LET e == lineEnd(stream.buf, pos)
             last == IF e > pos /\ stream.buf[e] = "\n" THEN e - 1 ELSE e
         IN  [exc |-> "", s |-> SubSeq(stream.buf, pos + 1, last), pos |-> e]

\* stream.readline() at position pos: the line with its terminator.
readline(stream, pos) ==
    IF ioError(stream) # ""
    THEN [exc |-> ioError(stream), s |-> <<>>, pos |-> pos]
    ELSE [exc |-> "",
          s |-> SubSeq(stream.buf, pos + 1, lineEnd(stream.buf, pos)),
          pos |-> lineEnd(stream.buf, pos)]

---------------------------------------------------------------------------
\* What a builtin hands back to the evaluator.

Token(s) == [head |-> "String", s |-> s, i |-> 0]
IntToken(i) == [head |-> "Integer", s |-> <<>>, i |-> i]

\* evaluation.message(symbol, tag, ...) followed by a bare return.
Message(tag) == [kind |-> "message", tag |-> tag, toks |-> <<>>, handles |-> <<>>]
\* An exception that leaves the builtin.
Raised(exc) == [kind |-> "exception", tag |-> exc, toks |-> <<>>, handles |-> <<>>]
\* A returned expression.
Value(tag, toks, handles) == [kind |-> "value", tag |-> tag, toks |-> toks, handles |-> handles]

EndOfFile == Value("EndOfFile", <<>>, <<>>)
Null == Value("Null", <<>>, <<>>)

\* from_python(*result) for one token, from_python(result) otherwise (173-176).
from_python(toks) ==
    IF Len(toks) = 1 THEN Value("Token", toks, <<>>) ELSE Value("List", toks, <<>>)

\* Expression(stream_type, name, n).
Handle(head, name, n) == [head |-> head, name |-> name, n |-> n]

---------------------------------------------------------------------------
\* Read: the typed token reader (files.py:95-176).

READ_TYPES == {"Byte", "Character", "Expression", "Number", "Real", "Record", "String", "Word"}

\* The list at line 120 is dead: word_reader rebinds the name at line 124.
word_separators_120 == {" ", "\t"}
word_separators == {" ", "\t", "\n"}

\* The generator word_reader between two next() calls: where it is suspended
\* and its local `word`.
NewGen == [at |-> "start", word |-> <<>>]

\* The inner loop of word_reader from the read at line 128, with the local
\* `word` as it stands.  Result: the exception raised or the word yielded, the
\* stream position and the suspended generator.
RECURSIVE word_loop(_, _, _)
word_loop(stream, pos, word) ==
    LET r == read1(stream, pos) IN
    IF r.exc # ""
    THEN [exc |-> r.exc, s |-> <<>>, pos |-> r.pos, gen |-> [at |-> "done", word |-> word]]
    ELSE IF r.s = <<>>
    THEN IF word = <<>>
         THEN [exc |-> "EOFError", s |-> <<>>, pos |-> r.pos,
               gen |-> [at |-> "done", word |-> word]]
         ELSE [exc |-> "", s |-> word, pos |-> r.pos,
               gen |-> [at |-> "y133", word |-> word]]
    ELSE IF r.s[1] \in word_separators
    THEN IF word = <<>>
         THEN word_loop(stream, r.pos, <<>>)
         ELSE [exc |-> "", s |-> word, pos |-> r.pos,
               gen |-> [at |-> "y139", word |-> word]]
    ELSE word_loop(stream, r.pos, word \o r.s)

\* read_word.next().  A fresh generator starts with word = ''.  Resumed after
\* the yield at 133 (tmp = '') it falls to line 141, which appends nothing, and
\* reads on; resumed after the yield at 139 it reads on: in both cases `word`
\* is not reset.  A generator that raised is finished.
word_next(stream, pos, gen) ==
    IF gen.at = "done"
    THEN [exc |-> "StopIteration", s |-> <<>>, pos |-> pos, gen |-> gen]
    ELSE word_loop(stream, pos, gen.word)

\* The loop body with the Byte branch lacking the length test of lines 148-149,
\* as the Character branch does: ord('') raises TypeError.
read_type_byte_unchecked(stream, typ, pos, gen) ==
    CASE typ = "Byte" ->
            LET r == read1(stream, pos) IN
            IF r.exc # "" THEN [exc |-> r.exc, add |-> <<>>, pos |-> r.pos, gen |-> gen]
            ELSE IF Len(r.s) = 0
            THEN [exc |-> "TypeError", add |-> <<>>, pos |-> r.pos, gen |-> gen]
            ELSE [exc |-> "", add |-> <<IntToken(ord(r.s[1]))>>, pos |-> r.pos, gen |-> gen]
      [] typ = "Character" ->
            LET r == read1(stream, pos) IN
            IF r.exc # "" THEN [exc |-> r.exc, add |-> <<>>, pos |-> r.pos, gen |-> gen]
            ELSE [exc |-> "", add |-> <<Token(r.s)>>, pos |-> r.pos, gen |-> gen]
      [] typ = "String" ->
            LET r == readline(stream, pos) IN
            IF r.exc # "" THEN [exc |-> r.exc, add |-> <<>>, pos |-> r.pos, gen |-> gen]
            ELSE IF Len(r.s) = 0
            THEN [exc |-> "EOFError", add |-> <<>>, pos |-> r.pos, gen |-> gen]
            ELSE [exc |-> "", add |-> <<Token(r.s)>>, pos |-> r.pos, gen |-> gen]
      [] typ = "Word" ->
            LET r == word_next(stream, pos, gen) IN
            IF r.exc # "" THEN [exc |-> r.exc, add |-> <<>>, pos |-> r.pos, gen |-> r.gen]
            ELSE [exc |-> "", add |-> <<Token(r.s)>>, pos |-> r.pos, gen |-> r.gen]
      [] OTHER ->
            [exc |-> "", add |-> <<>>, pos |-> pos, gen |-> gen]

\* One iteration of the loop at 144-171 for type typ: the exception raised (""
\* for none), the tokens appended to result, the position, the generator.
read_type(stream, typ, pos, gen) ==
    CASE typ = "Byte" ->
            LET r == read1(stream, pos) IN
            IF r.exc # "" THEN [exc |-> r.exc, add |-> <<>>, pos |-> r.pos, gen |-> gen]
            ELSE IF Len(r.s) = 0
            THEN [exc |-> "EOFError", add |-> <<>>, pos |-> r.pos, gen |-> gen]
            ELSE [exc |-> "", add |-> <<IntToken(ord(r.s[1]))>>, pos |-> r.pos, gen |-> gen]
      [] typ = "Character" ->
            LET r == read1(stream, pos) IN
            IF r.exc # "" THEN [exc |-> r.exc, add |-> <<>>, pos |-> r.pos, gen |-> gen]
            ELSE [exc |-> "", add |-> <<Token(r.s)>>, pos |-> r.pos, gen |-> gen]
      [] typ = "String" ->
            LET r == readline(stream, pos) IN
            IF r.exc # "" THEN [exc |-> r.exc, add |-> <<>>, pos |-> r.pos, gen |-> gen]
            ELSE IF Len(r.s) = 0
            THEN [exc |-> "EOFError", add |-> <<>>, pos |-> r.pos, gen |-> gen]
            ELSE [exc |-> "", add |-> <<Token(r.s)>>, pos |-> r.pos, gen |-> gen]
      [] typ = "Word" ->
            LET r == word_next(stream, pos, gen) IN
            IF r.exc # "" THEN [exc |-> r.exc, add |-> <<>>, pos |-> r.pos, gen |-> r.gen]
            ELSE [exc |-> "", add |-> <<Token(r.s)>>, pos |-> r.pos, gen |-> r.gen]
      [] OTHER ->
            [exc |-> "", add |-> <<>>, pos |-> pos, gen |-> gen]

\* The loop at 144-171 over the remaining types.
RECURSIVE read_types(_, _, _, _, _)
read_types(stream, types, pos, gen, res) ==
    IF types = <<>>
    THEN [exc |-> "", toks |-> res, pos |-> pos]
    ELSE LET step == read_type(stream, Head(types), pos, gen) IN
         IF step.exc # ""
         THEN [exc |-> step.exc, toks |-> <<>>, pos |-> step.pos]
         ELSE read_types(stream, Tail(types), step.pos, step.gen, res \o step.add)

\* STREAMS.get(n) is None (99-101).
NotInTable(S, n) == n \notin DOMAIN S

\* Lines 102-103 with the `return` lost: the reader goes on with None.
Read_notopen_fallthrough(S) == [ret |-> Raised("AttributeError"), S |-> S]

\* The message and the bare return of lines 102-103.
Read_notopen(S) == [ret |-> Message("Read::openx"), S |-> S]

\* Read.apply seeking back to where the request started when a type hits the
\* end of the content.
Read_apply_restore(S, n, types) ==
    IF NotInTable(S, n)
    THEN Read_notopen(S)
    ELSE IF \E k \in 1..Len(types) : types[k] \notin READ_TYPES
    THEN [ret |-> Raised("UnboundLocalError"), S |-> S]
    ELSE LET r == read_types(S[n], types, S[n].pos, NewGen, <<>>) IN
         [ret |-> IF r.exc = "EOFError" THEN EndOfFile
                  ELSE IF r.exc # "" THEN Raised(r.exc)
                  ELSE from_python(r.toks),
          S |-> IF r.exc = "EOFError" THEN S ELSE [S EXCEPT ![n].pos = r.pos]]

\* Read.apply closing the stream in the except clause of lines 170-171.
Read_apply_closing(S, n, types) ==
    IF NotInTable(S, n)
    THEN Read_notopen(S)
    ELSE IF \E k \in 1..Len(types) : types[k] \notin READ_TYPES
    THEN [ret |-> Raised("UnboundLocalError"), S |-> S]
    ELSE LET r == read_types(S[n], types, S[n].pos, NewGen, <<>>) IN
         [ret |-> IF r.exc = "EOFError" THEN EndOfFile
                  ELSE IF r.exc # "" THEN Raised(r.exc)
                  ELSE from_python(r.toks),
          S |-> IF r.exc = "EOFError"
                THEN [S EXCEPT ![n].pos = r.pos, ![n].closed = TRUE]
                ELSE [S EXCEPT ![n].pos = r.pos]]

\* Read.apply on InputStream[name, n] with the type list types: what it
\* returns and the table with stream n at its new position.
Read_apply(S, n, types) ==
    IF NotInTable(S, n)
    THEN Read_notopen(S)
    ELSE IF \E k \in 1..Len(types) : types[k] \notin READ_TYPES
    \* line 112 reads `typ`, a local that is bound only by the loop at 144
    THEN [ret |-> Raised("UnboundLocalError"), S |-> S]
    ELSE LET r == read_types(S[n], types, S[n].pos, NewGen, <<>>) IN
         [ret |-> IF r.exc = "EOFError" THEN EndOfFile
                  ELSE IF r.exc # "" THEN Raised(r.exc)
                  ELSE from_python(r.toks),
          S |-> [S EXCEPT ![n].pos = r.pos]]

---------------------------------------------------------------------------
\* The registry: _put_stream and the builtins around it.

\* The table T with key n bound to v (T[n] = v on a dict).
Put(T, n, v) == [k \in DOMAIN T \cup {n} |-> IF k = n THEN v ELSE T[k]]

\* The values of a dict with integer keys, in key order.
RECURSIVE values(_)
values(T) ==
    IF DOMAIN T = {} THEN <<>>
    ELSE LET k == CHOOSE x \in DOMAIN T : \A y \in DOMAIN T : x <= y IN
         <<T[k]>> \o values([j \in DOMAIN T \ {k} |-> T[j]])

\* The host's files: the paths io.open accepts, and what a file holds.
Paths == {<<"f">>, <<"n">>}
HostFiles == {<<"f">>}
FileText == <<"a">>

\* io.open(path_string, mode): the stream, or IOError (ok = FALSE).
io_open(path_string, mode) ==
    IF path_string \notin HostFiles
    THEN [ok |-> FALSE, stream |-> NewStream(<<>>, mode)]
    ELSE [ok |-> TRUE,
          stream |-> CASE mode = "r" -> NewStream(FileText, mode)
                       [] mode = "w" -> NewStream(<<>>, mode)
                       [] mode = "a" -> [NewStream(FileText, mode) EXCEPT !.pos = Len(FileText)]]

\* The id line 463 gives the next stream.
NextId(N) == N + 1

\* _put_stream handing out the lowest number whose stream is closed, when there
\* is one, instead of counting on.
_put_stream_reuse(S, U, N, d, stream) ==
    LET S0 == IF d THEN S ELSE <<>>
        U0 == IF d THEN U ELSE <<>>
        N0 == IF d THEN N ELSE 0
        free == {k \in DOMAIN S0 : S0[k].closed}
        n == IF free = {} THEN NextId(N0)
             ELSE CHOOSE k \in free : \A j \in free : k <= j
    IN  [STREAMS |-> Put(S0, n, stream),
         _STREAMS |-> U0,
         NSTREAMS |-> IF n > N0 THEN n ELSE N0,
         n |-> n]

\* _put_stream(stream).  The first call finds _STREAMS unbound and binds the
\* three globals afresh (456-461).
_put_stream(S, U, N, d, stream) ==
    LET S0 == IF d THEN S ELSE <<>>
        U0 == IF d THEN U ELSE <<>>
        N0 == IF d THEN N ELSE 0
    IN  [STREAMS |-> Put(S0, NextId(N0), stream),
         _STREAMS |-> U0,
         NSTREAMS |-> NextId(N0),
         n |-> NextId(N0)]

\* The globals as a builtin leaves them, with what it returned.
Outcome(ret, S, U, N, d) ==
    [ret |-> ret, STREAMS |-> S, _STREAMS |-> U, NSTREAMS |-> N, defined |-> d]

\* _OpenAction.apply with _put_stream called before the IOError is handled: a
\* refused open has taken a number.
_OpenAction_apply_putfirst(S, U, N, d, path, mode, stream_type) ==
    LET path_string == strip(to_python(path))
        o == io_open(path_string, mode)
        p == _put_stream(S, U, N, d, o.stream)
        h == Handle(stream_type, path, p.n)
    IN  IF ~o.ok
        THEN Outcome(Message("General::noopen"), p.STREAMS, p._STREAMS, p.NSTREAMS, TRUE)
        ELSE Outcome(Value("Stream", <<>>, <<h>>),
                     p.STREAMS, Put(p._STREAMS, p.n, h), p.NSTREAMS, TRUE)

\* _OpenAction.apply for the subclass with this mode and stream_type.
_OpenAction_apply(S, U, N, d, path, mode, stream_type) ==
    LET path_string == strip(to_python(path))
        o == io_open(path_string, mode)
    IN  IF ~o.ok
        THEN Outcome(Message("General::noopen"), S, U, N, d)
        ELSE LET p == _put_stream(S, U, N, d, o.stream)
                 h == Handle(stream_type, path, p.n)
             IN  Outcome(Value("Stream", <<>>, <<h>>),
                         p.STREAMS, Put(p._STREAMS, p.n, h), p.NSTREAMS, TRUE)

\* StringToStream.apply.
StringToStream_apply(S, U, N, d, string) ==
    LET pystring == strip(to_python(string))
        p == _put_stream(S, U, N, d, NewStream(pystring, "s"))
        h == Handle("InputStream", <<"String">>, p.n)
    IN  Outcome(Value("Stream", <<>>, <<h>>),
                p.STREAMS, Put(p._STREAMS, p.n, h), p.NSTREAMS, TRUE)

\* Close deleting the closed stream's entry from STREAMS.
Close_apply_del(S, n) ==
    IF n \notin DOMAIN S
    THEN [ret |-> Raised("KeyError"), S |-> S]
    ELSE IF S[n].closed
    THEN [ret |-> Message("General::openx"), S |-> S]
    ELSE [ret |-> Null, S |-> [k \in DOMAIN S \ {n} |-> S[k]]]

\* Close.apply_input and Close.apply_output: the same body (362-384).
Close_apply(S, n) ==
    IF n \notin DOMAIN S
    THEN [ret |-> Raised("KeyError"), S |-> S]
    ELSE IF S[n].closed
    THEN [ret |-> Message("General::openx"), S |-> S]
    ELSE [ret |-> Null, S |-> [S EXCEPT ![n].closed = TRUE]]

\* Streams.apply: the values of _STREAMS, a name that is unbound until the
\* first _put_stream.
Streams_apply(U, d) ==
    IF ~d THEN Raised("NameError")
    ELSE Value("List", <<>>, values(U))

---------------------------------------------------------------------------
\* State machine.

Result(op, arg, n, types, pos0, ret) ==
    [op |-> op, arg |-> arg, n |-> n, types |-> types, pos0 |-> pos0, ret |-> ret]

NoLog == [pure |-> TRUE, rets |-> <<>>]

\* wordlog of stream n after Read[n, types] returned ret.
Logged(log, types, ret) ==
    IF log.pure /\ types = <<"Word">> /\ ret.kind = "value" /\ Len(log.rets) < MaxReads
    THEN [pure |-> TRUE, rets |-> Append(log.rets, ret)]
    ELSE [pure |-> FALSE, rets |-> <<>>]

\* No EndOfFile seen yet.
NoEof == [T \in {"Byte", "Character", "String", "Word"} |-> 0]

\* The processes that may run an open concurrently, and one at rest.
Procs == {1, 2}
Idle == [pc |-> "idle", string |-> <<>>, stream |-> NewStream(<<>>, "s"), tmp |-> 0,
         n |-> 0, returned |-> FALSE]

\* The arguments the registry specification draws.
RegTexts == {<<"a", Quote>>}
RegTypes == {<<"Word">>}
\* Stream numbers a caller may write in a stream expression: those that may be
\* handed out and one that never is.
Ids == {-1} \cup 1..MaxStreams

\* Module import: STREAMS = {} (line 13); _STREAMS and NSTREAMS are unbound.
Init ==
    /\ STREAMS = <<>>
    /\ _STREAMS = <<>>
    /\ NSTREAMS = 0
    /\ defined = FALSE
    /\ result = Result("import", <<>>, 0, <<>>, 0, Null)
    /\ issued = <<>>
    /\ wordlog = NoLog
    /\ eofseen = NoEof
    /\ procs = [p \in Procs |-> Idle]

\* The globals and the histories after an open that left outcome o.
Opened(op, arg, o) ==
    /\ STREAMS' = o.STREAMS
    /\ _STREAMS' = o._STREAMS
    /\ NSTREAMS' = o.NSTREAMS
    /\ defined' = o.defined
    /\ result' = Result(op, arg, 0, <<>>, 0, o.ret)
    /\ issued' = IF o.ret.kind = "value" THEN Append(issued, o.ret.handles[1].n) ELSE issued
    /\ UNCHANGED <<wordlog, eofseen, procs>>

OpenRead(path) ==
    /\ NSTREAMS < MaxStreams
    /\ Opened("OpenRead", path,
              _OpenAction_apply(STREAMS, _STREAMS, NSTREAMS, defined, path, "r", "InputStream"))

OpenWrite(path) ==
    /\ NSTREAMS < MaxStreams
    /\ Opened("OpenWrite", path,
              _OpenAction_apply(STREAMS, _STREAMS, NSTREAMS, defined, path, "w", "OutputStream"))

OpenAppend(path) ==
    /\ NSTREAMS < MaxStreams
    /\ Opened("OpenAppend", path,
              _OpenAction_apply(STREAMS, _STREAMS, NSTREAMS, defined, path, "a", "OutputStream"))

StringToStream(string) ==
    /\ NSTREAMS < MaxStreams
    /\ Opened("StringToStream", string,
              StringToStream_apply(STREAMS, _STREAMS, NSTREAMS, defined, string))

Closed(op, n, c) ==
    /\ STREAMS' = c.S
    /\ result' = Result(op, <<>>, n, <<>>, 0, c.ret)
    /\ UNCHANGED <<_STREAMS, NSTREAMS, defined, issued, wordlog, eofseen, procs>>

\* Close[InputStream[name, n]]
Close_apply_input(n) ==
    /\ n \in Ids
    /\ Closed("Close", n, Close_apply(STREAMS, n))

\* Close[OutputStream[name, n]]
Close_apply_output(n) ==
    /\ n \in Ids
    /\ Closed("Close", n, Close_apply(STREAMS, n))

\* Read[InputStream[name, n], types]; result keeps the position the stream
\* had when the request was made.
ReadStep(n, types, r) ==
    /\ STREAMS' = r.S
    /\ result' = Result("Read", <<>>, n, types,
                        IF n \in DOMAIN STREAMS THEN STREAMS[n].pos ELSE 0, r.ret)
    /\ UNCHANGED <<_STREAMS, NSTREAMS, defined, issued, procs>>

Read(n, types) ==
    /\ ReadStep(n, types, Read_apply(STREAMS, n, types))
    /\ UNCHANGED <<wordlog, eofseen>>

\* Streams[]
Streams ==
    /\ result' = Result("Streams", <<>>, 0, <<>>, 0, Streams_apply(_STREAMS, defined))
    /\ UNCHANGED <<STREAMS, _STREAMS, NSTREAMS, defined, issued, wordlog, eofseen, procs>>

Next ==
    \/ \E path \in Paths : OpenRead(path)
    \/ \E path \in Paths : OpenWrite(path)
    \/ \E path \in Paths : OpenAppend(path)
    \/ \E string \in RegTexts : StringToStream(string)
    \/ \E n \in Ids : Close_apply_input(n)
    \/ \E n \in Ids : Close_apply_output(n)
    \/ \E n \in Ids, types \in RegTypes : Read(n, types)
    \/ Streams

Spec == Init /\ [][Next]_vars

---------------------------------------------------------------------------
\* The reader on one string stream: StringToStream[string] has just been
\* evaluated in a fresh session, and Read requests follow.

\* The type lists of the requests: every list of token types up to MaxTypes,
\* and the lists that hold a type Read leaves unimplemented ("Number") or a
\* name that is no type ("Foo") at any place.
Lists(names) == UNION {[1..k -> names] : k \in 0..MaxTypes}
TypeLists ==
    Lists({"Byte", "Character", "String", "Word"})
        \cup {l \in Lists({"Word", "Foo"}) : "Foo" \in Range(l)}
        \cup {l \in Lists({"Byte", "Number"}) : "Number" \in Range(l)}

InitRead ==
    \E string \in Texts(MaxLen) :
        LET o == StringToStream_apply(<<>>, <<>>, 0, FALSE, string) IN
        /\ STREAMS = o.STREAMS
        /\ _STREAMS = o._STREAMS
        /\ NSTREAMS = o.NSTREAMS
        /\ defined = o.defined
        /\ result = Result("StringToStream", string, 0, <<>>, 0, o.ret)
        /\ issued = <<o.ret.handles[1].n>>
        /\ wordlog = NoLog
        /\ eofseen = NoEof
        /\ procs = [p \in Procs |-> Idle]

\* A Read request on the stream, logged.
ReadLogged(types) ==
    LET r == Read_apply(STREAMS, 1, types) IN
    /\ ReadStep(1, types, r)
    /\ wordlog' = Logged(wordlog, types, r.ret)
    /\ UNCHANGED eofseen

NextRead ==
    \E types \in TypeLists : ReadLogged(types)

SpecRead == InitRead /\ [][NextRead]_vars

---------------------------------------------------------------------------
\* The reader with the EndOfFile answers counted: single-type requests, and
\* requests for two types in between.

EofRequests == [1..1 -> {"Byte", "Character", "String", "Word"}]
                 \cup [1..2 -> {"Byte", "Character", "String", "Word"}]

\* eofseen after Read[_, types] returned ret.
Counted(seen, types, ret) ==
    IF Len(types) = 1 /\ ret = EndOfFile /\ seen[types[1]] < MaxEof
    THEN [seen EXCEPT ![types[1]] = @ + 1]
    ELSE seen

ReadCounted(types) ==
    LET r == Read_apply(STREAMS, 1, types) IN
    /\ ReadStep(1, types, r)
    /\ eofseen' = Counted(eofseen, types, r.ret)
    /\ UNCHANGED wordlog

NextEof ==
    \E types \in EofRequests : ReadCounted(types)

SpecEof == InitRead /\ [][NextEof]_vars

---------------------------------------------------------------------------
\* Vocabulary of the properties.

OpenOps == {"OpenRead", "OpenWrite", "OpenAppend", "StringToStream"}

\* The last builtin was an open that returned a stream expression.
OpenSucceeded(r) == r.op \in OpenOps /\ r.ret.kind = "value"
\* The last builtin was an open the host refused.
OpenFailed(r) == r.op \in OpenOps /\ r.ret.kind # "value"

Issued == Range(issued)

NotOpenRead == Message("Read::openx")
NotOpenClose == Message("General::openx")

\* The separators and the words of a text, as the specification defines them:
\* a word is a maximal run of non-separator characters.
IsSeparator(c) == c \in {" ", "\t", "\n"}

WordSpans(s) ==
    {sp \in (1..Len(s)) \X (1..Len(s)) :
        /\ sp[1] <= sp[2]
        /\ \A k \in sp[1]..sp[2] : ~IsSeparator(s[k])
        /\ sp[1] = 1 \/ IsSeparator(s[sp[1] - 1])
        /\ sp[2] = Len(s) \/ IsSeparator(s[sp[2] + 1])}

WordsOf(s) ==
    LET R == WordSpans(s) IN
    [m \in 1..Cardinality(R) |->
        LET sp == CHOOSE x \in R : Cardinality({y \in R : y[1] < x[1]}) = m - 1
        IN  SubSeq(s, sp[1], sp[2])]

\* The content of the stream from position pos on.
Rest(stream, pos) == SubSeq(stream.buf, pos + 1, Len(stream.buf))

TokenTypes == {"Byte", "Character", "String", "Word"}

---------------------------------------------------------------------------
\* Registry properties (specification Spec).

\* C1: the k-th successful open returns handle id k: the ids handed out are
\* 1, 2, 3, ... in the order of the opens, whatever was closed or refused in
\* between.
C1_KthOpenReturnsK ==
    /\ \A k \in 1..Len(issued) : issued[k] = k
    /\ OpenSucceeded(result) => result.ret.handles[1].n = Len(issued)

\* Three opens with the second stream closed before the third open.
C1_Witness ==
    /\ OpenSucceeded(result)
    /\ result.ret.handles[1].n = MaxStreams
    /\ STREAMS[MaxStreams - 1].closed
    /\ ~STREAMS[MaxStreams].closed

\* C2: a Read on an input handle returned by an open is served from its stream
\* while the handle is open, and reports 'not open' once it is closed.
C2_ReadAfterCloseNotOpen ==
    (/\ result.op = "Read"
     /\ result.n \in Issued
     /\ _STREAMS[result.n].head = "InputStream")
        => IF STREAMS[result.n].closed
           THEN result.ret = NotOpenRead
           ELSE result.ret.kind = "value"

\* C3: Close on a handle that is already closed, or whose id was never issued,
\* reports 'not open' as a message and changes no table and no stream.
C3_CloseNotOpen ==
    [][(/\ result'.op = "Close"
        /\ \/ result'.n \notin Issued
           \/ result'.n \in DOMAIN STREAMS /\ STREAMS[result'.n].closed)
            => /\ result'.ret = NotOpenClose
               /\ UNCHANGED <<STREAMS, _STREAMS, NSTREAMS, defined>>]_vars

\* C4: Streams[] returns exactly the handles opened and not yet closed.
C4_StreamsListsOpenHandles ==
    result.op = "Streams"
        => /\ result.ret.kind = "value"
           /\ {result.ret.handles[k].n : k \in 1..Len(result.ret.handles)}
                = {n \in Issued : ~STREAMS[n].closed}

\* C5: a Read on an InputStream whose id was never issued reports 'not open',
\* returns no token and changes no table and no stream position.
C5_ReadNeverIssued ==
    [][(result'.op = "Read" /\ result'.n \notin Issued)
            => /\ result'.ret = NotOpenRead
               /\ UNCHANGED <<STREAMS, _STREAMS, NSTREAMS, defined>>]_vars

\* A Read on an id above the last one issued, with a stream open, was answered
\* 'not open'.
C5_Witness ==
    /\ result.op = "Read"
    /\ result.n > NSTREAMS
    /\ NSTREAMS >= 1
    /\ result.ret = NotOpenRead

\* C6: an open the host refuses reports the failure and leaves the counter and
\* both tables as they were; a successful open returns the counter plus one,
\* so the refused open costs no id.
C6_FailedOpenAllocatesNothing ==
    [][/\ OpenFailed(result')
            => /\ result'.ret = Message("General::noopen")
               /\ UNCHANGED <<STREAMS, _STREAMS, NSTREAMS, defined>>
       /\ (OpenSucceeded(result') /\ NSTREAMS' # NSTREAMS)
            => /\ result'.ret.handles[1].n = NSTREAMS + 1
               /\ DOMAIN STREAMS' = DOMAIN STREAMS \cup {NSTREAMS + 1}]_vars

\* A refused OpenWrite after a stream was opened.
C6_Witness ==
    /\ result.op = "OpenWrite"
    /\ result.ret = Message("General::noopen")
    /\ NSTREAMS >= 1

---------------------------------------------------------------------------
\* Reader properties (specification SpecRead).

TheStream == STREAMS[1]

\* The k-th answer to successive Word reads on a text.
KthWordAnswer(s, k) ==
    IF k <= Len(WordsOf(s)) THEN Value("Token", <<Token(WordsOf(s)[k])>>, <<>>)
    ELSE EndOfFile

\* C7: successive single Word reads return the words of the content in order,
\* one per call, and EndOfFile on every call after the last word.
C7_SuccessiveWords ==
    wordlog.pure
        => \A k \in 1..Len(wordlog.rets) :
                wordlog.rets[k] = KthWordAnswer(TheStream.buf, k)

\* Four Word reads on a text of two words: two words, then EndOfFile twice.
C7_Witness ==
    /\ wordlog.pure
    /\ Len(wordlog.rets) = 4
    /\ Len(WordsOf(TheStream.buf)) = 2
    /\ wordlog.rets[1].tag = "Token"
    /\ wordlog.rets[2].tag = "Token"
    /\ wordlog.rets[1] # wordlog.rets[2]
    /\ wordlog.rets[3] = EndOfFile
    /\ wordlog.rets[4] = EndOfFile

\* A list request that asks for more tokens than the rest of the content
\* holds: more words than there are, or more bytes than there are.
AsksTooMany(types, rest) ==
    /\ Len(types) >= 2
    /\ \/ /\ \A k \in 1..Len(types) : types[k] = "Word"
          /\ Len(types) > Len(WordsOf(rest))
       \/ /\ \A k \in 1..Len(types) : types[k] = "Byte"
          /\ Len(types) > Len(rest)

\* C8: a Read request for a list of types in which some requested type hits
\* end-of-stream returns one EndOfFile for the whole request and no token.
C8_EndOfStreamIsAllOrNothing ==
    (result.op = "Read" /\ AsksTooMany(result.types, Rest(TheStream, result.pos0)))
        => result.ret = EndOfFile

\* What the single-type Reads types[1], types[2], ... return one after the
\* other on table S.
RECURSIVE Successive(_, _)
Successive(S, types) ==
    IF types = <<>> THEN <<>>
    ELSE LET r == Read_apply(S, 1, <<Head(types)>>) IN
         <<r.ret>> \o Successive(r.S, Tail(types))

\* C9: a Read request for a list of token types that does not hit
\* end-of-stream returns the tokens that successive single-type Reads return
\* from the same starting position.
C9_ListReadEqualsSuccessiveReads ==
    LET singles == Successive([STREAMS EXCEPT ![1].pos = result.pos0], result.types) IN
    (/\ result.op = "Read"
     /\ Len(result.types) >= 2
     /\ \A k \in 1..Len(result.types) : result.types[k] \in TokenTypes
     /\ result.ret # EndOfFile
     /\ \A k \in 1..Len(singles) : singles[k] # EndOfFile)
        => /\ result.ret.kind = "value"
           /\ result.ret.toks = [k \in 1..Len(singles) |-> singles[k].toks[1]]

\* C10: a String read returns the characters from the position up to the next
\* line terminator or the end of the content, without the terminator.
C10_LineExcludesTerminator ==
    (result.op = "Read" /\ result.types = <<"String">> /\ result.ret.tag = "Token")
        => LET text == result.ret.toks[1].s
               rest == Rest(TheStream, result.pos0)
           IN  /\ "\n" \notin Range(text)
               /\ text = SubSeq(rest, 1, Len(text))
               /\ Len(text) = Len(rest) \/ rest[Len(text) + 1] = "\n"

\* C11: a String read returns EndOfFile exactly when no character remains at
\* the time of the call; an unterminated last line and a blank line each yield
\* a token.
C11_LineEndOfFileIffNothingLeft ==
    (result.op = "Read" /\ result.types = <<"String">>)
        => /\ result.ret.kind = "value"
           /\ result.ret.tag \in {"Token", "EndOfFile"}
           /\ result.ret = EndOfFile <=> Rest(TheStream, result.pos0) = <<>>

\* A String read answered EndOfFile at the end of a content whose last line has
\* no terminator.
C11_Witness ==
    /\ result.op = "Read"
    /\ result.types = <<"String">>
    /\ result.ret = EndOfFile
    /\ TheStream.buf # <<>>
    /\ TheStream.buf[Len(TheStream.buf)] # "\n"
    /\ result.pos0 = Len(TheStream.buf)

\* C12: a Character read returns exactly one character and advances by one
\* when a character remains, and returns EndOfFile, never a token, when none
\* remains.
C12_CharacterOrEndOfFile ==
    (result.op = "Read" /\ result.types = <<"Character">>)
        => LET rest == Rest(TheStream, result.pos0) IN
           IF rest # <<>>
           THEN /\ result.ret = Value("Token", <<Token(<<rest[1]>>)>>, <<>>)
                /\ TheStream.pos = result.pos0 + 1
           ELSE result.ret = EndOfFile

\* Where the stream stands, within the last request, when its j-th type is
\* read: the position the types before it left (exc is "" when they all
\* returned a token).
BeforeType(j) ==
    read_types(TheStream, SubSeq(result.types, 1, j - 1), result.pos0, NewGen, <<>>)

AllSeparators(s) == \A k \in 1..Len(s) : IsSeparator(s[k])

\* C13: a Word read that finds the remaining content empty or made of
\* separators only returns EndOfFile, and no Word read of any request returns
\* an empty word or a word that holds a separator.
C13_WordNeverEmpty ==
    (/\ result.op = "Read"
     /\ \A k \in 1..Len(result.types) : result.types[k] \in TokenTypes)
        => /\ \A j \in 1..Len(result.types) :
                (/\ result.types[j] = "Word"
                 /\ BeforeType(j).exc = ""
                 /\ AllSeparators(Rest(TheStream, BeforeType(j).pos)))
                    => result.ret = EndOfFile
           /\ result.ret.tag \in {"Token", "List"}
                => \A j \in 1..Len(result.types) :
                        result.types[j] = "Word"
                            => /\ result.ret.toks[j].s # <<>>
                               /\ ~\E c \in Range(result.ret.toks[j].s) : IsSeparator(c)

\* The message Read.messages defines for a bad type specification.
BadTypeRejected == Message("Read::readf")

\* C15: a Read request whose type list holds a name that is no token type,
\* at any place of the list, is rejected as a caller error before anything is
\* read: no token is returned and the position is what it was.
C15_UnknownTypeRejectedUpFront ==
    (/\ result.op = "Read"
     /\ \E k \in 1..Len(result.types) : result.types[k] \notin READ_TYPES)
        => /\ result.ret = BadTypeRejected
           /\ TheStream.pos = result.pos0

\* C16: a Byte read returns the integer code of the next unit and advances by
\* exactly one when a unit remains, and returns EndOfFile, no token, when none
\* remains.
C16_ByteOrEndOfFile ==
    (result.op = "Read" /\ result.types = <<"Byte">>)
        => LET rest == Rest(TheStream, result.pos0) IN
           IF rest # <<>>
           THEN /\ result.ret = Value("Token", <<IntToken(ord(rest[1]))>>, <<>>)
                /\ TheStream.pos = result.pos0 + 1
           ELSE /\ result.ret = EndOfFile
                /\ TheStream.pos = result.pos0

\* A Byte read answered EndOfFile after an earlier read took the last unit.
C16_Witness ==
    /\ result.op = "Read"
    /\ result.types = <<"Byte">>
    /\ result.ret = EndOfFile
    /\ TheStream.buf # <<>>
    /\ result.pos0 = Len(TheStream.buf)

\* C18: a request that ends in EndOfFile leaves the stream where its reading
\* stopped, at the end of the content, not where the request started: what the
\* earlier types of the request consumed stays consumed.
C18_EndOfFileKeepsConsumed ==
    (result.op = "Read" /\ result.ret = EndOfFile)
        => /\ TheStream.pos = Len(TheStream.buf)
           /\ TheStream.pos >= result.pos0

\* {Byte, Byte} with one unit left: EndOfFile, and the unit is gone.
C18_Witness ==
    /\ result.op = "Read"
    /\ result.types = <<"Byte", "Byte">>
    /\ result.ret = EndOfFile
    /\ result.pos0 = Len(TheStream.buf) - 1
    /\ TheStream.pos = Len(TheStream.buf)

---------------------------------------------------------------------------
\* The two tables (specification Spec).

\* The host object a table entry refers to: what it was opened on.
SameObject(s1, s2) == s1.buf = s2.buf /\ s1.mode = s2.mode

\* C19: between operations STREAMS and _STREAMS have the same keys, 1..NSTREAMS,
\* and no operation, Close included, removes or overwrites an entry of either
\* table.
C19_TablesGrowTogether ==
    [][/\ DOMAIN STREAMS = 1..NSTREAMS /\ DOMAIN _STREAMS = 1..NSTREAMS
       /\ DOMAIN STREAMS' = 1..NSTREAMS' /\ DOMAIN _STREAMS' = 1..NSTREAMS'
       /\ \A k \in DOMAIN STREAMS :
            k \in DOMAIN STREAMS' /\ SameObject(STREAMS'[k], STREAMS[k])
       /\ \A k \in DOMAIN _STREAMS :
            k \in DOMAIN _STREAMS' /\ _STREAMS'[k] = _STREAMS[k]]_vars

\* Every number handed out, one stream closed by the last operation, and both
\* tables still hold its entry.
C19_Witness ==
    /\ NSTREAMS = MaxStreams
    /\ result.op = "Close"
    /\ result.ret = Null
    /\ result.n \in DOMAIN STREAMS
    /\ STREAMS[result.n].closed
    /\ result.n \in DOMAIN _STREAMS

---------------------------------------------------------------------------
\* Two opens at once: StringToStream.apply run by the processes of Procs, its
\* call of _put_stream taken one statement at a time, the steps of the
\* processes interleaved in any order (nothing in the module holds a lock).

\* The string each process opens.
ConcString(p) == IF p = 1 THEN <<Quote, "a", Quote>> ELSE <<Quote, "b", Quote>>

\* The calls begun so far: the returned ones and those in progress.
Begun == Len(issued) + Cardinality({q \in Procs : procs[q].pc # "idle"})

\* Lines 428-430: the stream is made, _put_stream is entered.
Call(p) ==
    /\ procs[p].pc = "idle"
    /\ Begun < MaxStreams
    /\ procs' = [procs EXCEPT ![p] =
                    [pc |-> "try", string |-> ConcString(p),
                     stream |-> NewStream(strip(to_python(ConcString(p))), "s"),
                     tmp |-> 0, n |-> 0, returned |-> FALSE]]
    /\ UNCHANGED <<STREAMS, _STREAMS, NSTREAMS, defined, result, issued, wordlog, eofseen>>

\* Lines 456-458: is _STREAMS bound?
Try(p) ==
    /\ procs[p].pc = "try"
    /\ procs' = [procs EXCEPT ![p].pc = IF defined THEN "load" ELSE "except"]
    /\ UNCHANGED <<STREAMS, _STREAMS, NSTREAMS, defined, result, issued, wordlog, eofseen>>

\* Lines 459-461: the three globals are bound anew.
Except(p) ==
    /\ procs[p].pc = "except"
    /\ STREAMS' = <<>>
    /\ _STREAMS' = <<>>
    /\ NSTREAMS' = 0
    /\ defined' = TRUE
    /\ procs' = [procs EXCEPT ![p].pc = "load"]
    /\ UNCHANGED <<result, issued, wordlog, eofseen>>

\* Line 463, first half: NSTREAMS is loaded.
Load(p) ==
    /\ procs[p].pc = "load"
    /\ procs' = [procs EXCEPT ![p].pc = "store", ![p].tmp = NSTREAMS]
    /\ UNCHANGED <<STREAMS, _STREAMS, NSTREAMS, defined, result, issued, wordlog, eofseen>>

\* Line 463, second half: the loaded value plus one is stored.
Store(p) ==
    /\ procs[p].pc = "store"
    /\ NSTREAMS' = procs[p].tmp + 1
    /\ procs' = [procs EXCEPT ![p].pc = "subscr"]
    /\ UNCHANGED <<STREAMS, _STREAMS, defined, result, issued, wordlog, eofseen>>

\* Line 464: STREAMS[NSTREAMS] = stream.
Subscr(p) ==
    /\ procs[p].pc = "subscr"
    /\ STREAMS' = Put(STREAMS, NSTREAMS, procs[p].stream)
    /\ procs' = [procs EXCEPT ![p].pc = "return"]
    /\ UNCHANGED <<_STREAMS, NSTREAMS, defined, result, issued, wordlog, eofseen>>

\* Line 465: return NSTREAMS.
Return(p) ==
    /\ procs[p].pc = "return"
    /\ procs' = [procs EXCEPT ![p].pc = "register", ![p].n = NSTREAMS]
    /\ UNCHANGED <<STREAMS, _STREAMS, NSTREAMS, defined, result, issued, wordlog, eofseen>>

\* Lines 431-436: the handle is recorded under n and returned.
Register(p) ==
    LET h == Handle("InputStream", <<"String">>, procs[p].n) IN
    /\ procs[p].pc = "register"
    /\ _STREAMS' = Put(_STREAMS, procs[p].n, h)
    /\ result' = Result("StringToStream", procs[p].string, 0, <<>>, 0, Value("Stream", <<>>, <<h>>))
    /\ issued' = Append(issued, procs[p].n)
    /\ procs' = [procs EXCEPT ![p].pc = "idle", ![p].returned = TRUE]
    /\ UNCHANGED <<STREAMS, NSTREAMS, defined, wordlog, eofseen>>

NextConc ==
    \E p \in Procs :
        \/ Call(p)
        \/ Try(p)
        \/ Except(p)
        \/ Load(p)
        \/ Store(p)
        \/ Subscr(p)
        \/ Return(p)
        \/ Register(p)

SpecConc == Init /\ [][NextConc]_vars

---------------------------------------------------------------------------
\* End of file, again (specification SpecEof).

\* C14: once a Read of token type T has returned EndOfFile, every later Read
\* of type T on the stream returns EndOfFile, as a value, and leaves the
\* stream as it is.
C14_EndOfFileIsStable ==
    [][\A T \in TokenTypes :
        (eofseen[T] >= 1 /\ result'.op = "Read" /\ result'.types = <<T>>)
            => /\ result'.ret = EndOfFile
               /\ STREAMS' = STREAMS]_vars

\* A second Word read answered EndOfFile, on a content with a word in it, after
\* a Byte read had been answered EndOfFile too.
C14_Witness ==
    /\ eofseen["Word"] = 2
    /\ eofseen["Byte"] >= 1
    /\ result.op = "Read"
    /\ result.types = <<"Word">>
    /\ result.ret = EndOfFile
    /\ WordsOf(TheStream.buf) # <<>>

---------------------------------------------------------------------------
\* Two opens at once (specification SpecConc).

\* C17: under any interleaving of the steps of two opens, the ids returned
\* are different and each returned id maps to the stream its open made.
C17_AllocationIsAtomic ==
    /\ \A i, j \in 1..Len(issued) : i # j => issued[i] # issued[j]
    /\ \A p \in Procs :
        procs[p].returned
            => /\ procs[p].n \in DOMAIN STREAMS
               /\ STREAMS[procs[p].n].buf = procs[p].stream.buf

=============================================================================
